---- MODULE Spec2Model ----
(***************************************************************************)
(* TradeOmen AI microservice: the two protected routes of app/apis/chat.py *)
(* (POST /tag-trade, POST /chat/{session_id}) behind the shared-secret     *)
(* header check, the Gemini client handle and the single-round tool        *)
(* dispatch of chat_with_ai.                                               *)
(*                                                                         *)
(* The provider (LLM_CLIENT.models.generate_content) is the environment:   *)
(* every call either raises (APIError or another exception) or returns a   *)
(* completion drawn from a bounded set.  gatewayLog and toolLog record,    *)
(* per request, the calls the handler made; they are observations, not     *)
(* program state.                                                          *)
(***************************************************************************)
EXTENDS Integers, Sequences, FiniteSets, TLC

\* ------------------------------------------------------------------ bounds
NumSlots == 2
MaxHistory == 2

\* ------------------------------------------------------- program constants
None == "None"

USER == "user"
ASSISTANT == "assistant"
SYSTEM == "system"
TOOL == "tool"
MessageRole == {USER, ASSISTANT, SYSTEM, TOOL}

HTTP_401_UNAUTHORIZED == 401
HTTP_422_UNPROCESSABLE == 422
HTTP_500_INTERNAL_SERVER_ERROR == 500
HTTP_502_BAD_GATEWAY == 502

AI_SERVICE_SECRET_KEY == "secret-key"
ToolName == "get_user_trade_summary"
UnknownToolText == "ERROR: Unknown tool requested."

\* the declarations advertised with the first query
TOOL_CONFIG == [name |-> ToolName, required |-> {"user_id"}]

\* ------------------------------------------------------------ input sets
Slots == 1..NumSlots
Routes == {"tag-trade", "chat"}
Headers == {None, AI_SERVICE_SECRET_KEY, "wrong-key"}
UserIds == {"u1", "u2"}
Plans == {"pro"}
Contents == {"c1", "c2"}
Notes == {"n1"}
Texts == {None, "", "a1", "a2"}

ChatMessage(role, content) == [role |-> role, content |-> content]

HistoryMessages == {ChatMessage(r, c) : r \in MessageRole, c \in Contents}
NewMessages == {ChatMessage(USER, "q1")}

SeqsUpTo(S, n) == UNION {[1..k -> S] : k \in 0..n}

Histories == SeqsUpTo(HistoryMessages, MaxHistory)

NoRequest ==
    [user_id |-> None, user_plan |-> None, history |-> <<>>,
     new_message |-> ChatMessage(None, None), notes |-> None]

ChatRequest(u, p, h, m) ==
    [user_id |-> u, user_plan |-> p, history |-> h, new_message |-> m, notes |-> None]

TaggingRequest(n) ==
    [user_id |-> None, user_plan |-> None, history |-> <<>>,
     new_message |-> ChatMessage(None, None), notes |-> n]

ChatRequests ==
    {ChatRequest(u, p, h, m) : u \in UserIds, p \in Plans, h \in Histories, m \in NewMessages}

TaggingRequests == {TaggingRequest(n) : n \in Notes}

\* ------------------------------------------------ provider-side data types
\* genai_types.Part: a text part or a function-response part
PartFromText(text) ==
    [kind |-> "text", text |-> text, name |-> None, response |-> <<>>]

PartFromFunctionResponse(name, response) ==
    [kind |-> "function_response", text |-> None, name |-> name, response |-> response]

Content(role, parts) == [role |-> role, parts |-> parts]

\* a function call of a completion: the name and the argument mapping
FunctionCall(name, args) == [name |-> name, args |-> args]

ArgMaps == {{}} \cup {{<<"user_id", u>>} : u \in UserIds}

SingleCalls == {FunctionCall(n, a) : n \in {ToolName, "other_tool"}, a \in ArgMaps}

LaterCalls == {FunctionCall(n, {<<"user_id", "u1">>}) : n \in {ToolName, "other_tool"}}

FirstCallLists ==
    {<<>>} \cup {<<c>> : c \in SingleCalls}
           \cup {<<c, d>> : c \in LaterCalls, d \in LaterCalls}

SecondCallLists == {<<>>, <<FunctionCall(ToolName, {<<"user_id", "u1">>})>>}

Unbound == [bound |-> FALSE, function_calls |-> <<>>, text |-> None]

Completion(calls, text) == [bound |-> TRUE, function_calls |-> calls, text |-> text]

FirstCompletions == {Completion(c, t) : c \in FirstCallLists, t \in Texts}
SecondCompletions == {Completion(c, t) : c \in SecondCallLists, t \in Texts}

Raises == {"APIError", "Exception"}

\* what a failing tool raises: never the provider's APIError
ToolRaises == {"ToolExecutionError"}

\* response.text of a tagging completion, as the JSON document it spells:
\* present = FALSE is a response without text
JsonText(present, wellformed, keys, tags_is_list, items) ==
    [present |-> present, wellformed |-> wellformed, keys |-> keys,
     tags_is_list |-> tags_is_list, items |-> items]

JsonString(v) == [type |-> "string", value |-> v]
JsonNumber(v) == [type |-> "number", value |-> v]

NoText == JsonText(FALSE, FALSE, {}, FALSE, <<>>)

TagTexts ==
    {NoText,
     JsonText(TRUE, FALSE, {}, FALSE, <<>>),
     JsonText(TRUE, TRUE, {"tags"}, TRUE, <<JsonString("FOMO"), JsonString("Breakout")>>),
     JsonText(TRUE, TRUE, {"tags"}, TRUE, <<JsonString("Breakout"), JsonString("FOMO")>>),
     JsonText(TRUE, TRUE, {"tags"}, TRUE, <<>>),
     JsonText(TRUE, TRUE, {"tags", "confidence"}, TRUE, <<JsonString("FOMO")>>),
     JsonText(TRUE, TRUE, {"labels"}, TRUE, <<JsonString("FOMO")>>),
     JsonText(TRUE, TRUE, {"tags"}, FALSE, <<JsonString("FOMO")>>),
     JsonText(TRUE, TRUE, {"tags"}, TRUE, <<JsonString("FOMO"), JsonNumber("7")>>)}

\* ------------------------------------------------------- handler results
NoResult ==
    [kind |-> "none", status_code |-> 0, role |-> None, content |-> None,
     tags |-> <<>>, detail |-> None]

HTTPException(status_code, detail) ==
    [kind |-> "HTTPException", status_code |-> status_code, role |-> None,
     content |-> None, tags |-> <<>>, detail |-> detail]

ChatMessageReply(role, content) ==
    [kind |-> "ChatMessage", status_code |-> 200, role |-> role,
     content |-> content, tags |-> <<>>, detail |-> None]

TaggingResponse(tags) ==
    [kind |-> "TaggingResponse", status_code |-> 200, role |-> None,
     content |-> None, tags |-> tags, detail |-> None]

\* one observed call of LLM_CLIENT.models.generate_content and its outcome
GatewayCall(contents, instruction, tools, schema, raises, completion) ==
    [contents |-> contents, system_instruction |-> instruction, tools |-> tools,
     response_schema |-> schema, raises |-> raises, completion |-> completion]

\* ---------------------------------------------------------- pure functions
\* the dependency left out of a route: every header passes
verify_internal_auth_open(auth_key) == NoResult

\* the header dependency: a request without the header never reaches the
\* function body (the parameter is required), a wrong key raises 401
verify_internal_auth(auth_key) ==
    IF auth_key = None
    THEN HTTPException(HTTP_422_UNPROCESSABLE, "Field required")
    ELSE IF auth_key # AI_SERVICE_SECRET_KEY
         THEN HTTPException(HTTP_401_UNAUTHORIZED, "Invalid microservice authentication key.")
         ELSE NoResult

\* the handler without its guard on the client handle
ClientMissing_unchecked(client) == FALSE

\* "if not LLM_CLIENT"
ClientMissing(client) == client = None

\* only the user role sent as the requester
ProviderRole_user_only(role) == IF role = USER THEN "user" ELSE "model"

\* the provider's binary role model
ProviderRole(role) == IF role \in {USER, TOOL} THEN "user" ELSE "model"

ContentOfMessage(msg) == Content(ProviderRole(msg.role), <<PartFromText(msg.content)>>)

\* the loop over request.history
BuildContents(req) ==
    [i \in 1..Len(req.history) |-> ContentOfMessage(req.history[i])]

Upper(plan) == IF plan = "pro" THEN "PRO" ELSE IF plan = "free" THEN "FREE" ELSE plan

SystemInstruction(req) == <<"TradeLM", Upper(req.user_plan)>>

\* contents=[tagging_prompt]: one text embedding request.notes
TaggingPrompt(req) == <<Content("user", <<PartFromText(req.notes)>>)>>

\* the generic except clause ahead of the APIError one
ErrorStatus_generic(raises) == HTTP_500_INTERNAL_SERVER_ERROR

\* the except clauses of both handlers
ErrorStatus(raises) ==
    IF raises = "APIError" THEN HTTP_502_BAD_GATEWAY ELSE HTTP_500_INTERNAL_SERVER_ERROR

ErrorDetail(raises) ==
    IF raises = "APIError" THEN "Gemini API Error" ELSE "An unexpected error occurred"

ErrorResult(raises) == HTTPException(ErrorStatus(raises), ErrorDetail(raises))

\* TaggingResponse.model_validate_json: tags is required and is a list of strings
SchemaValid(text) ==
    /\ text.present
    /\ text.wellformed
    /\ "tags" \in text.keys
    /\ text.tags_is_list
    /\ \A i \in 1..Len(text.items) : text.items[i].type = "string"

ParsedTags(text) == [i \in 1..Len(text.items) |-> text.items[i].value]

model_validate_json(text) ==
    IF SchemaValid(text) THEN TaggingResponse(ParsedTags(text)) ELSE ErrorResult("ValidationError")

\* "if gemini_response.function_calls"
HasFunctionCalls(resp) == resp.function_calls # <<>>

\* the last requested call taken instead of the first
first_call_last(resp) == resp.function_calls[Len(resp.function_calls)]

first_call(resp) == resp.function_calls[1]

\* the dispatch comparing against a misspelt tool name
IsRegisteredTool_misspelt(call) == call.name = "get_trade_summary"

\* the dispatch without the comparison of the name
IsRegisteredTool_any(call) == TRUE

\* the dispatch taken only for a call that carries the declared parameter
IsRegisteredTool_with_args(call) ==
    call.name = ToolName /\ \E kv \in call.args : kv[1] = "user_id"

IsRegisteredTool(call) == call.name = ToolName

\* the value of a key of a function call's argument mapping, None if absent
ArgValue(call, key) ==
    IF \E kv \in call.args : kv[1] = key
    THEN (CHOOSE kv \in call.args : kv[1] = key)[2]
    ELSE None

\* the tool called with the model's argument
ToolArgument_from_call(req, call) == ArgValue(call, "user_id")

\* the argument of the await get_user_trade_summary(...) in chat_with_ai
ToolArgument(req, call) == req.user_id

get_user_trade_summary(user_id) == <<"Anonymized Trade Summary for ID", user_id>>

ToolContent(output) ==
    Content("tool", <<PartFromFunctionResponse(ToolName, <<"summary", output>>)>>)

\* the tool message put ahead of the conversation
SecondContents_prepended(contents, output) == <<ToolContent(output)>> \o contents

\* contents of the second query
SecondContents(contents, output) == contents \o <<ToolContent(output)>>

\* the await wrapped in its own handler that goes on without a tool result
ToolFailureStep_swallowed(e) == "continue"

\* an exception raised by the awaited tool is not handled at the call: it
\* leaves the try block through the except clauses
ToolFailureStep(e) == "raise"

\* the second completion dispatched like the first one
SecondQueryStep_chained(resp) ==
    IF HasFunctionCalls(resp) /\ IsRegisteredTool(first_call(resp)) THEN "tool" ELSE "reply"

\* what follows the second completion: response_text = tool_response.text,
\* whatever function calls the completion carries
SecondQueryStep(resp) == "reply"

\* the fallback text assigned on every path
BuildReply_fallback(text) ==
    IF text = None THEN ErrorResult("ValidationError")
    ELSE ChatMessageReply(ASSISTANT, UnknownToolText)

\* the return guarded by the text, with nothing returned or raised otherwise
BuildReply_guarded(text) ==
    IF text = None THEN NoResult ELSE ChatMessageReply(ASSISTANT, text)

\* the reply built without the validation of its fields
BuildReply_unvalidated(text) == ChatMessageReply(ASSISTANT, text)

\* ChatMessage(role=ASSISTANT, content=response_text): content must be a str
BuildReply(text) ==
    IF text = None THEN ErrorResult("ValidationError")
    ELSE ChatMessageReply(ASSISTANT, text)

\* ------------------------------------------------------------------ state
VARIABLES
    LLM_CLIENT,       \* the module-level client handle, None if its construction failed
    pc,               \* per request slot: where the request is
    route,            \* per slot: the route requested
    auth_key,         \* per slot: the X-Microservice-Auth header, None if absent
    request,          \* per slot: the parsed body
    gemini_contents,  \* locals of chat_with_ai
    gemini_response,
    tool_output,
    tool_response,
    response_text,
    result,           \* per slot: what the caller gets back
    gatewayLog,       \* per slot: the generate_content calls made, in order
    toolLog           \* per slot: the arguments of the tool invocations, in order

vars ==
    <<LLM_CLIENT, pc, route, auth_key, request, gemini_contents, gemini_response,
      tool_output, tool_response, response_text, result, gatewayLog, toolLog>>

locals == <<gemini_contents, gemini_response, tool_output, tool_response, response_text>>

Init ==
    /\ LLM_CLIENT \in {None, "client"}
    /\ pc = [r \in Slots |-> "idle"]
    /\ route = [r \in Slots |-> None]
    /\ auth_key = [r \in Slots |-> None]
    /\ request = [r \in Slots |-> NoRequest]
    /\ gemini_contents = [r \in Slots |-> <<>>]
    /\ gemini_response = [r \in Slots |-> Unbound]
    /\ tool_output = [r \in Slots |-> <<>>]
    /\ tool_response = [r \in Slots |-> Unbound]
    /\ response_text = [r \in Slots |-> None]
    /\ result = [r \in Slots |-> NoResult]
    /\ gatewayLog = [r \in Slots |-> <<>>]
    /\ toolLog = [r \in Slots |-> <<>>]

\* the locals kept at module level: one frame for every invocation
Frame_shared(r) == 1

\* where the locals of the invocation serving slot r live: every invocation of
\* chat_with_ai has a frame of its own
Frame(r) == r

\* --------------------------------------------------------------- actions
Return(r, res) ==
    /\ result' = [result EXCEPT ![r] = res]
    /\ pc' = [pc EXCEPT ![r] = "done"]

\* a request arrives on a protected route; requests are served one at a time
Arrive(r) ==
    /\ \A s \in Slots : pc[s] = "idle"
    /\ \E rt \in Routes, key \in Headers :
         /\ route' = [route EXCEPT ![r] = rt]
         /\ auth_key' = [auth_key EXCEPT ![r] = key]
         /\ \E req \in (IF rt = "chat" THEN ChatRequests ELSE TaggingRequests) :
              request' = [request EXCEPT ![r] = req]
    /\ pc' = [pc EXCEPT ![r] = "received"]
    /\ UNCHANGED <<LLM_CLIENT, locals, result, gatewayLog, toolLog>>

\* dependencies=[VerifyInternalAuth] of both routes
CheckAuth(r) ==
    /\ pc[r] = "received"
    /\ LET rejected == verify_internal_auth(auth_key[r]) IN
         IF rejected # NoResult
         THEN Return(r, rejected)
         ELSE /\ pc' = [pc EXCEPT ![r] = "handler"]
              /\ UNCHANGED result
    /\ UNCHANGED <<LLM_CLIENT, route, auth_key, request, locals, gatewayLog, toolLog>>

\* the whole of tag_trade
tag_trade(r) ==
    /\ pc[r] = "handler"
    /\ route[r] = "tag-trade"
    /\ IF ClientMissing(LLM_CLIENT)
       THEN /\ Return(r, HTTPException(HTTP_500_INTERNAL_SERVER_ERROR,
                                       "AI Service is not initialized."))
            /\ UNCHANGED gatewayLog
       ELSE \/ \E e \in Raises :
                 /\ gatewayLog' = [gatewayLog EXCEPT ![r] =
                        Append(@, GatewayCall(TaggingPrompt(request[r]), None, <<>>,
                                              "TaggingResponse", e, NoText))]
                 /\ Return(r, ErrorResult(e))
            \/ \E text \in TagTexts :
                 /\ gatewayLog' = [gatewayLog EXCEPT ![r] =
                        Append(@, GatewayCall(TaggingPrompt(request[r]), None, <<>>,
                                              "TaggingResponse", None, text))]
                 /\ Return(r, model_validate_json(text))
    /\ UNCHANGED <<LLM_CLIENT, route, auth_key, request, locals, toolLog>>

\* chat_with_ai up to the first generate_content call
chat_begin(r) ==
    /\ pc[r] = "handler"
    /\ route[r] = "chat"
    /\ IF ClientMissing(LLM_CLIENT)
       THEN /\ Return(r, HTTPException(HTTP_500_INTERNAL_SERVER_ERROR,
                                       "AI Service is not initialized."))
            /\ UNCHANGED gemini_contents
       ELSE /\ gemini_contents' = [gemini_contents EXCEPT ![Frame(r)] = BuildContents(request[r])]
            /\ pc' = [pc EXCEPT ![r] = "first_query"]
            /\ UNCHANGED result
    /\ UNCHANGED <<LLM_CLIENT, route, auth_key, request, gemini_response, tool_output,
                   tool_response, response_text, gatewayLog, toolLog>>

\* the return statement of chat_with_ai, inside the try block
Reply(r, text) ==
    /\ response_text' = [response_text EXCEPT ![Frame(r)] = text]
    /\ Return(r, BuildReply(text))

\* the first generate_content call and the branch on its function calls,
\* up to the await of the tool
chat_first_query(r) ==
    /\ pc[r] = "first_query"
    /\ \/ \E e \in Raises :
            /\ gatewayLog' = [gatewayLog EXCEPT ![r] =
                   Append(@, GatewayCall(gemini_contents[Frame(r)], SystemInstruction(request[r]),
                                         <<TOOL_CONFIG>>, None, e, Unbound))]
            /\ Return(r, ErrorResult(e))
            /\ UNCHANGED <<gemini_response, response_text>>
       \/ \E resp \in FirstCompletions :
            /\ gatewayLog' = [gatewayLog EXCEPT ![r] =
                   Append(@, GatewayCall(gemini_contents[Frame(r)], SystemInstruction(request[r]),
                                         <<TOOL_CONFIG>>, None, None, resp))]
            /\ gemini_response' = [gemini_response EXCEPT ![Frame(r)] = resp]
            /\ IF HasFunctionCalls(resp)
               THEN IF IsRegisteredTool(first_call(resp))
                    THEN /\ pc' = [pc EXCEPT ![r] = "tool"]
                         /\ UNCHANGED <<response_text, result>>
                    ELSE Reply(r, UnknownToolText)
               ELSE Reply(r, resp.text)
    /\ UNCHANGED <<LLM_CLIENT, route, auth_key, request, gemini_contents, tool_output,
                   tool_response, toolLog>>

\* await get_user_trade_summary(...)
chat_tool(r) ==
    /\ pc[r] = "tool"
    /\ LET user_id == ToolArgument(request[r], first_call(gemini_response[Frame(r)])) IN
         /\ toolLog' = [toolLog EXCEPT ![r] = Append(@, user_id)]
         /\ tool_output' = [tool_output EXCEPT ![Frame(r)] = get_user_trade_summary(user_id)]
    /\ pc' = [pc EXCEPT ![r] = "second_query"]
    /\ UNCHANGED <<LLM_CLIENT, route, auth_key, request, gemini_contents, gemini_response,
                   tool_response, response_text, result, gatewayLog>>

\* await get_user_trade_summary(...) when the awaited coroutine raises.  The
\* mock of the repository never does; this step belongs to SpecToolFails only,
\* the handler run against a tool that can fail.
chat_tool_raises(r) ==
    /\ pc[r] = "tool"
    /\ LET user_id == ToolArgument(request[r], first_call(gemini_response[Frame(r)])) IN
         toolLog' = [toolLog EXCEPT ![r] = Append(@, user_id)]
    /\ \E e \in ToolRaises :
         IF ToolFailureStep(e) = "raise"
         THEN Return(r, ErrorResult(e))
         ELSE /\ pc' = [pc EXCEPT ![r] = "second_query"]
              /\ UNCHANGED result
    /\ UNCHANGED <<LLM_CLIENT, route, auth_key, request, locals, gatewayLog>>

\* the second generate_content call and the return
chat_second_query(r) ==
    /\ pc[r] = "second_query"
    /\ LET contents == SecondContents(gemini_contents[Frame(r)], tool_output[Frame(r)]) IN
         \/ \E e \in Raises :
              /\ gatewayLog' = [gatewayLog EXCEPT ![r] =
                     Append(@, GatewayCall(contents, None, <<>>, None, e, Unbound))]
              /\ Return(r, ErrorResult(e))
              /\ UNCHANGED <<tool_response, response_text>>
         \/ \E resp \in SecondCompletions :
              /\ gatewayLog' = [gatewayLog EXCEPT ![r] =
                     Append(@, GatewayCall(contents, None, <<>>, None, None, resp))]
              /\ tool_response' = [tool_response EXCEPT ![Frame(r)] = resp]
              /\ IF SecondQueryStep(resp) = "tool"
                 THEN /\ pc' = [pc EXCEPT ![r] = "tool"]
                      /\ UNCHANGED <<response_text, result>>
                 ELSE Reply(r, resp.text)
    /\ UNCHANGED <<LLM_CLIENT, route, auth_key, request, gemini_contents, gemini_response,
                   tool_output, toolLog>>

\* the response is sent; nothing of the request is kept
Finish(r) ==
    /\ pc[r] = "done"
    /\ pc' = [pc EXCEPT ![r] = "idle"]
    /\ route' = [route EXCEPT ![r] = None]
    /\ auth_key' = [auth_key EXCEPT ![r] = None]
    /\ request' = [request EXCEPT ![r] = NoRequest]
    /\ gemini_contents' = [gemini_contents EXCEPT ![Frame(r)] = <<>>]
    /\ gemini_response' = [gemini_response EXCEPT ![Frame(r)] = Unbound]
    /\ tool_output' = [tool_output EXCEPT ![Frame(r)] = <<>>]
    /\ tool_response' = [tool_response EXCEPT ![Frame(r)] = Unbound]
    /\ response_text' = [response_text EXCEPT ![Frame(r)] = None]
    /\ result' = [result EXCEPT ![r] = NoResult]
    /\ gatewayLog' = [gatewayLog EXCEPT ![r] = <<>>]
    /\ toolLog' = [toolLog EXCEPT ![r] = <<>>]
    /\ UNCHANGED LLM_CLIENT

Next ==
    \E r \in Slots :
        \/ Arrive(r)
        \/ CheckAuth(r)
        \/ tag_trade(r)
        \/ chat_begin(r)
        \/ chat_first_query(r)
        \/ chat_tool(r)
        \/ chat_second_query(r)
        \/ Finish(r)

Spec == Init /\ [][Next]_vars

\* ---------------------------------------------- two requests in flight
\* the two slots that serve chat requests concurrently
ConcSlots == {1, 2}

ConcHistories ==
    {<<ChatMessage(USER, "c1")>>,
     <<ChatMessage(ASSISTANT, "c2"), ChatMessage(TOOL, "c1")>>}

ConcRequests ==
    {ChatRequest(u, p, h, m) :
        u \in UserIds, p \in Plans, h \in ConcHistories, m \in NewMessages}

ConcFirstCompletions ==
    {Completion(<<>>, "a1"), Completion(<<>>, None),
     Completion(<<FunctionCall(ToolName, {<<"user_id", "u1">>})>>, None),
     Completion(<<FunctionCall("other_tool", {})>>, None)}

ConcSecondCompletions ==
    {Completion(<<>>, "a2"), Completion(<<>>, None),
     Completion(<<FunctionCall(ToolName, {<<"user_id", "u1">>})>>, "a1")}

\* the completion of the call that slot r made last
LastCompletion(log, r) == log[r][Len(log[r])].completion

\* an accepted chat request arrives while others may be in flight
ArriveConc(r) ==
    /\ pc[r] = "idle"
    /\ route' = [route EXCEPT ![r] = "chat"]
    /\ auth_key' = [auth_key EXCEPT ![r] = AI_SERVICE_SECRET_KEY]
    /\ \E req \in ConcRequests : request' = [request EXCEPT ![r] = req]
    /\ pc' = [pc EXCEPT ![r] = "received"]
    /\ UNCHANGED <<LLM_CLIENT, locals, result, gatewayLog, toolLog>>

\* the query steps with the provider's answers drawn from the smaller sets
ConcFirstQuery(r) ==
    /\ chat_first_query(r)
    /\ LastCompletion(gatewayLog', r) \in ConcFirstCompletions \cup {Unbound}

ConcSecondQuery(r) ==
    /\ chat_second_query(r)
    /\ LastCompletion(gatewayLog', r) \in ConcSecondCompletions \cup {Unbound}

NextConc ==
    \E r \in ConcSlots :
        \/ ArriveConc(r)
        \/ CheckAuth(r)
        \/ chat_begin(r)
        \/ ConcFirstQuery(r)
        \/ chat_tool(r)
        \/ ConcSecondQuery(r)
        \/ Finish(r)

\* chat requests served concurrently, interleaved at every step
SpecConc == Init /\ [][NextConc]_vars

\* every call returns or raises, and the event loop runs a handler that can
\* take a step: each step of an accepted request is eventually taken
Progress ==
    \A r \in ConcSlots :
        /\ WF_vars(chat_begin(r))
        /\ WF_vars(ConcFirstQuery(r))
        /\ WF_vars(chat_tool(r))
        /\ WF_vars(ConcSecondQuery(r))

SpecLive == SpecConc /\ Progress

NextToolFails == Next \/ \E r \in Slots : chat_tool_raises(r)

\* the service with a tool that can fail
SpecToolFails == Init /\ [][NextToolFails]_vars

\* ------------------------------------------------------------ observations
ChatSlot(r) == route[r] = "chat"

Queried(r) == Len(gatewayLog[r]) >= 1

\* the completion the provider returned to the first query of slot r
FirstCompletion(r) == gatewayLog[r][1].completion

FirstQueryReturned(r) == Queried(r) /\ gatewayLog[r][1].raises = None

NoCallRaised(r) == \A i \in 1..Len(gatewayLog[r]) : gatewayLog[r][i].raises = None

\* ------------------------------------------------------------------ claims

\* C1: when the first completion of a chat request has no tool call and is
\* plain text, the request has ended with an assistant message whose content is
\* that text verbatim, the tool was never invoked and the gateway was called
\* exactly once.
C1_PlainTextVerbatim ==
    \A r \in Slots :
        ( /\ ChatSlot(r)
          /\ FirstQueryReturned(r)
          /\ FirstCompletion(r).function_calls = <<>>
          /\ FirstCompletion(r).text # None )
        => /\ pc[r] = "done"
           /\ result[r].kind = "ChatMessage"
           /\ result[r].role = "assistant"
           /\ result[r].content = FirstCompletion(r).text
           /\ toolLog[r] = <<>>
           /\ Len(gatewayLog[r]) = 1

C1_Witness ==
    \E r \in Slots :
        /\ ChatSlot(r)
        /\ FirstQueryReturned(r)
        /\ FirstCompletion(r).function_calls = <<>>
        /\ FirstCompletion(r).text = "a2"
        /\ request[r].history # <<>>
        /\ result[r].content = "a2"

\* C2: when the first completion requests get_user_trade_summary, the tool is
\* invoked before the second query, exactly once and with the request's
\* user_id; once the request has ended the gateway was called exactly twice,
\* and if no call raised and the second completion carries text, the answer is
\* an assistant message with exactly that text.
C2_ToolRoundTrip ==
    \A r \in Slots :
        ( /\ ChatSlot(r)
          /\ FirstQueryReturned(r)
          /\ FirstCompletion(r).function_calls # <<>>
          /\ FirstCompletion(r).function_calls[1].name = "get_user_trade_summary" )
        => /\ pc[r] \in {"tool", "second_query", "done"}
           /\ pc[r] = "tool" => toolLog[r] = <<>> /\ Len(gatewayLog[r]) = 1
           /\ pc[r] = "second_query" =>
                toolLog[r] = <<request[r].user_id>> /\ Len(gatewayLog[r]) = 1
           /\ pc[r] = "done" =>
                /\ toolLog[r] = <<request[r].user_id>>
                /\ Len(gatewayLog[r]) = 2
                /\ (NoCallRaised(r) /\ gatewayLog[r][2].completion.text # None) =>
                     /\ result[r].kind = "ChatMessage"
                     /\ result[r].role = "assistant"
                     /\ result[r].content = gatewayLog[r][2].completion.text

C2_Witness ==
    \E r \in Slots :
        /\ ChatSlot(r)
        /\ pc[r] = "done"
        /\ Len(gatewayLog[r]) = 2
        /\ NoCallRaised(r)
        /\ FirstCompletion(r).function_calls[1].name = "get_user_trade_summary"
        /\ FirstCompletion(r).text = "a1"
        /\ gatewayLog[r][2].completion.text = "a2"
        /\ toolLog[r] = <<"u2">>
        /\ result[r].content = "a2"

\* C3: when the first completion requests a tool name that is not registered,
\* the request has ended with the assistant message "ERROR: Unknown tool
\* requested." (not an HTTP error), after exactly one gateway call and no tool
\* invocation.
C3_UnknownToolFallback ==
    \A r \in Slots :
        ( /\ ChatSlot(r)
          /\ FirstQueryReturned(r)
          /\ FirstCompletion(r).function_calls # <<>>
          /\ FirstCompletion(r).function_calls[1].name # "get_user_trade_summary" )
        => /\ pc[r] = "done"
           /\ result[r].kind = "ChatMessage"
           /\ result[r].status_code = 200
           /\ result[r].role = "assistant"
           /\ result[r].content = "ERROR: Unknown tool requested."
           /\ Len(gatewayLog[r]) = 1
           /\ toolLog[r] = <<>>

C3_Witness ==
    \E r \in Slots :
        /\ ChatSlot(r)
        /\ FirstQueryReturned(r)
        /\ Len(FirstCompletion(r).function_calls) = 2
        /\ FirstCompletion(r).function_calls[1].name = "other_tool"
        /\ FirstCompletion(r).function_calls[2].name = "get_user_trade_summary"
        /\ result[r].content = "ERROR: Unknown tool requested."

\* the text carried by one entry of a query's contents
TextOf(content) == content.parts[1].text

\* h, converted message by message, occurs in contents c in order
HistoryInOrder(h, c) ==
    \E f \in [1..Len(h) -> 1..Len(c)] :
        /\ \A i, j \in 1..Len(h) : i < j => f[i] < f[j]
        /\ \A i \in 1..Len(h) : TextOf(c[f[i]]) = h[i].content

\* C4: the contents of the first query contain every history message in order
\* and also new_message.
C4_FirstQueryHasNewMessage ==
    \A r \in Slots :
        (ChatSlot(r) /\ Queried(r)) =>
            /\ HistoryInOrder(request[r].history, gatewayLog[r][1].contents)
            /\ \E j \in 1..Len(gatewayLog[r][1].contents) :
                 TextOf(gatewayLog[r][1].contents[j]) = request[r].new_message.content

\* C5 as stated: whenever the model's call of get_user_trade_summary carries a
\* user_id argument, the tool receives that argument.
C5_ToolGetsModelArgument ==
    \A r \in Slots :
        ( /\ ChatSlot(r)
          /\ toolLog[r] # <<>>
          /\ \E kv \in FirstCompletion(r).function_calls[1].args : kv[1] = "user_id" )
        => \A i \in 1..Len(toolLog[r]) :
             <<"user_id", toolLog[r][i]>> \in FirstCompletion(r).function_calls[1].args

\* C5 amended: for every combination of ChatRequest.user_id and model-supplied
\* arguments (a user_id equal to it, another user_id, or none), the user_id the
\* tool receives is ChatRequest.user_id, and the summary is the one for that id.
C5_ToolGetsRequestUserId ==
    \A r \in Slots :
        (ChatSlot(r) /\ pc[r] \in {"second_query", "done"} /\ toolLog[r] # <<>>) =>
            /\ \A i \in 1..Len(toolLog[r]) : toolLog[r][i] = request[r].user_id
            /\ tool_output[r] = <<"Anonymized Trade Summary for ID", request[r].user_id>>

C5_Witness ==
    \E r \in Slots :
        /\ ChatSlot(r)
        /\ toolLog[r] = <<"u1">>
        /\ request[r].user_id = "u1"
        /\ FirstCompletion(r).function_calls[1].args = {<<"user_id", "u2">>}

\* C6: when a generate_content call of a chat request raises, at the first or
\* at the second query, that call is the last one made, the request has ended in an
\* HTTP error (502 for an APIError, 500 for anything else) and not in a
\* message, and the tool was invoked after it neither: the tool log is empty
\* when the first query failed and holds its one earlier entry when the second
\* did.
C6_GatewayFailureAborts ==
    \A r \in Slots :
        \A i \in 1..Len(gatewayLog[r]) :
            (ChatSlot(r) /\ gatewayLog[r][i].raises # None) =>
                /\ i = Len(gatewayLog[r])
                /\ pc[r] = "done"
                /\ result[r].kind = "HTTPException"
                /\ result[r].content = None
                /\ result[r].status_code =
                     (IF gatewayLog[r][i].raises = "APIError" THEN 502 ELSE 500)
                /\ Len(toolLog[r]) = i - 1

C6_Witness ==
    \E r \in Slots :
        /\ ChatSlot(r)
        /\ Len(gatewayLog[r]) = 2
        /\ gatewayLog[r][2].raises = "APIError"
        /\ result[r].status_code = 502

\* C7: while LLM_CLIENT is None no request makes a gateway call or a tool call,
\* no chat request gets past the client check, and every chat or tagging
\* request that reached its handler ends with the 500 error "AI Service is
\* not initialized.".
C7_UninitializedClientFailsFirst ==
    LLM_CLIENT = None =>
        \A r \in Slots :
            /\ gatewayLog[r] = <<>>
            /\ toolLog[r] = <<>>
            /\ pc[r] \in {"idle", "received", "handler", "done"}
            /\ (pc[r] = "done" /\ auth_key[r] = AI_SERVICE_SECRET_KEY) =>
                 /\ result[r].kind = "HTTPException"
                 /\ result[r].status_code = 500
                 /\ result[r].detail = "AI Service is not initialized."

C7_Witness ==
    \E r \in Slots :
        /\ LLM_CLIENT = None
        /\ ChatSlot(r)
        /\ pc[r] = "done"
        /\ auth_key[r] = AI_SERVICE_SECRET_KEY
        /\ result[r].status_code = 500
        /\ gatewayLog[r] = <<>>

\* C8: on both protected routes a request whose header is missing or is not
\* the shared secret never reaches its handler and makes no gateway call and
\* no tool call, and ends rejected (401, or 422 for a missing header); no
\* request has made a call while its header check is still pending.
C8_AuthBeforeAnyCall ==
    \A r \in Slots :
        /\ (pc[r] # "idle" /\ auth_key[r] # AI_SERVICE_SECRET_KEY) =>
             /\ pc[r] \in {"received", "done"}
             /\ gatewayLog[r] = <<>>
             /\ toolLog[r] = <<>>
             /\ pc[r] = "done" =>
                  /\ result[r].kind = "HTTPException"
                  /\ result[r].status_code \in {401, 422}
        /\ pc[r] = "received" => gatewayLog[r] = <<>> /\ toolLog[r] = <<>>
        /\ (gatewayLog[r] # <<>> \/ toolLog[r] # <<>>) => auth_key[r] = AI_SERVICE_SECRET_KEY

C8_Witness ==
    \E r \in Slots :
        /\ LLM_CLIENT # None
        /\ ChatSlot(r)
        /\ auth_key[r] = "wrong-key"
        /\ pc[r] = "done"
        /\ result[r].status_code = 401
        /\ gatewayLog[r] = <<>>

\* the document the provider returned to a finished tagging request
TaggingReturned(r) ==
    /\ route[r] = "tag-trade"
    /\ pc[r] = "done"
    /\ Len(gatewayLog[r]) = 1
    /\ gatewayLog[r][1].raises = None

\* the TaggingResponse schema, stated on the returned document: an object with
\* a key tags whose value is a list of strings
ConformsToSchema(text) ==
    /\ text.present
    /\ text.wellformed
    /\ "tags" \in text.keys
    /\ text.tags_is_list
    /\ \A i \in 1..Len(text.items) : text.items[i].type = "string"

\* C9: a tagging response that does not validate against the TaggingResponse
\* schema ends the request with the 502 error, as a failed upstream call does,
\* and never with a TaggingResponse.
C9_MalformedTagsIsProviderError ==
    \A r \in Slots :
        (TaggingReturned(r) /\ ~ConformsToSchema(gatewayLog[r][1].completion)) =>
            /\ result[r].kind = "HTTPException"
            /\ result[r].status_code = 502

\* C10: the contents of the first query have one entry per history message, in
\* the same order (entry i carries the text of message i); the entry of a user
\* or tool message has the requester role "user", the entry of an assistant or
\* system message the model role "model".
C10_RoleMapping ==
    \A r \in Slots :
        (ChatSlot(r) /\ Queried(r)) =>
            LET h == request[r].history
                c == gatewayLog[r][1].contents
            IN /\ Len(c) = Len(h)
               /\ \A i \in 1..Len(h) :
                    /\ TextOf(c[i]) = h[i].content
                    /\ h[i].role \in {"user", "tool"} => c[i].role = "user"
                    /\ h[i].role \in {"assistant", "system"} => c[i].role = "model"

C10_Witness ==
    \E r \in Slots :
        /\ ChatSlot(r)
        /\ Queried(r)
        /\ Len(request[r].history) = 2
        /\ request[r].history[1] = ChatMessage("tool", "c2")
        /\ request[r].history[2] = ChatMessage("system", "c1")
        /\ gatewayLog[r][1].contents[1].role = "user"
        /\ gatewayLog[r][1].contents[2].role = "model"

\* C11: no chat request makes more than two gateway calls or more than one
\* tool invocation; when the second completion itself carries a tool call the
\* request has ended with exactly two gateway calls and one tool invocation,
\* and its outcome is built from that completion's text alone.
C11_SingleToolRound ==
    \A r \in Slots :
        /\ Len(gatewayLog[r]) <= 2
        /\ Len(toolLog[r]) <= 1
        /\ ( /\ ChatSlot(r)
             /\ Len(gatewayLog[r]) = 2
             /\ gatewayLog[r][2].raises = None
             /\ gatewayLog[r][2].completion.function_calls # <<>> )
           => /\ pc[r] = "done"
              /\ Len(toolLog[r]) = 1
              /\ IF gatewayLog[r][2].completion.text = None
                 THEN result[r].kind = "HTTPException"
                 ELSE /\ result[r].kind = "ChatMessage"
                      /\ result[r].content = gatewayLog[r][2].completion.text

C11_Witness ==
    \E r \in Slots :
        /\ ChatSlot(r)
        /\ Len(gatewayLog[r]) = 2
        /\ gatewayLog[r][2].raises = None
        /\ gatewayLog[r][2].completion.function_calls # <<>>
        /\ gatewayLog[r][2].completion.function_calls[1].name = "get_user_trade_summary"
        /\ gatewayLog[r][2].completion.text = "a1"
        /\ pc[r] = "done"
        /\ result[r].content = "a1"
        /\ Len(toolLog[r]) = 1

\* C12: a second query is made only after the tool has returned; its contents
\* are the contents of the first query, same entries in the same order,
\* followed by exactly one entry of role "tool" that carries the tool's result
\* as the function response of get_user_trade_summary; it advertises no tools;
\* and gemini_contents still equals the contents of the first query.
C12_SecondQueryAppendsToolResult ==
    \A r \in Slots :
        (ChatSlot(r) /\ Len(gatewayLog[r]) >= 2) =>
            LET first == gatewayLog[r][1].contents
                second == gatewayLog[r][2].contents
                last == second[Len(second)]
            IN /\ Len(toolLog[r]) = 1
               /\ tool_output[r] # <<>>
               /\ Len(second) = Len(first) + 1
               /\ \A i \in 1..Len(first) : second[i] = first[i]
               /\ last.role = "tool"
               /\ Len(last.parts) = 1
               /\ last.parts[1].kind = "function_response"
               /\ last.parts[1].name = "get_user_trade_summary"
               /\ last.parts[1].response = <<"summary", tool_output[r]>>
               /\ \A i \in 1..Len(first) : first[i].role # "tool"
               /\ gatewayLog[r][2].tools = <<>>
               /\ gatewayLog[r][1].tools # <<>>
               /\ gemini_contents[r] = first

C12_Witness ==
    \E r \in Slots :
        /\ ChatSlot(r)
        /\ Len(gatewayLog[r]) = 2
        /\ Len(gatewayLog[r][1].contents) = 2
        /\ gatewayLog[r][1].contents[1].role # gatewayLog[r][1].contents[2].role
        /\ Len(gatewayLog[r][2].contents) = 3
        /\ gatewayLog[r][2].contents[3].role = "tool"

\* the first completion of slot r calls get_user_trade_summary without user_id
OmitsUserId(r) ==
    /\ ChatSlot(r)
    /\ FirstQueryReturned(r)
    /\ FirstCompletion(r).function_calls # <<>>
    /\ FirstCompletion(r).function_calls[1].name = "get_user_trade_summary"
    /\ \A kv \in FirstCompletion(r).function_calls[1].args : kv[1] # "user_id"

\* C13 as stated: when the model's call of get_user_trade_summary omits
\* user_id, the tool body does not run, no second query is issued and the
\* request ends in an error, not in an assistant answer.
C13_MissingArgumentRejected ==
    \A r \in Slots :
        OmitsUserId(r) =>
            /\ toolLog[r] = <<>>
            /\ tool_output[r] = <<>>
            /\ Len(gatewayLog[r]) = 1
            /\ pc[r] = "done" => result[r].kind = "HTTPException"

\* C13 amended: the arguments of the model's call are not validated; when the
\* call omits user_id the tool still runs, once and with ChatRequest.user_id,
\* the second query is issued, and the request ends as the second query
\* decides: its text as the assistant answer, or the error of that query.
C13_MissingArgumentIgnored ==
    \A r \in Slots :
        OmitsUserId(r) =>
            /\ pc[r] \in {"tool", "second_query", "done"}
            /\ pc[r] \in {"second_query", "done"} =>
                 /\ toolLog[r] = <<request[r].user_id>>
                 /\ tool_output[r] = <<"Anonymized Trade Summary for ID", request[r].user_id>>
            /\ pc[r] = "done" =>
                 /\ Len(gatewayLog[r]) = 2
                 /\ gatewayLog[r][2].raises = "APIError" => result[r].status_code = 502
                 /\ gatewayLog[r][2].raises = "Exception" => result[r].status_code = 500
                 /\ (gatewayLog[r][2].raises = None /\ gatewayLog[r][2].completion.text # None) =>
                      /\ result[r].kind = "ChatMessage"
                      /\ result[r].content = gatewayLog[r][2].completion.text

C13_Witness ==
    \E r \in Slots :
        /\ OmitsUserId(r)
        /\ pc[r] = "done"
        /\ toolLog[r] = <<"u2">>
        /\ Len(gatewayLog[r]) = 2
        /\ result[r].kind = "ChatMessage"
        /\ result[r].content = "a2"

\* C14: when the first completion carries more than one requested call, the
\* first call alone decides, whatever the later calls name: a first call of
\* get_user_trade_summary takes the tool path (one tool invocation with the
\* request's user_id, a second query whose text is the answer), any other first
\* call takes the fallback (no tool invocation, one gateway call, the answer
\* "ERROR: Unknown tool requested."), exactly as for a completion that holds
\* only that first call.
C14_OnlyFirstCallHonored ==
    \A r \in Slots :
        ( /\ ChatSlot(r)
          /\ FirstQueryReturned(r)
          /\ Len(FirstCompletion(r).function_calls) > 1 )
        => IF FirstCompletion(r).function_calls[1].name = "get_user_trade_summary"
           THEN /\ pc[r] \in {"tool", "second_query", "done"}
                /\ Len(toolLog[r]) = (IF pc[r] = "tool" THEN 0 ELSE 1)
                /\ pc[r] = "done" =>
                     /\ Len(gatewayLog[r]) = 2
                     /\ (gatewayLog[r][2].raises = None
                           /\ gatewayLog[r][2].completion.text # None) =>
                          /\ result[r].kind = "ChatMessage"
                          /\ result[r].content = gatewayLog[r][2].completion.text
           ELSE /\ pc[r] = "done"
                /\ toolLog[r] = <<>>
                /\ Len(gatewayLog[r]) = 1
                /\ result[r].kind = "ChatMessage"
                /\ result[r].content = "ERROR: Unknown tool requested."

C14_Witness ==
    \E r \in Slots :
        /\ ChatSlot(r)
        /\ pc[r] = "done"
        /\ Len(gatewayLog[r]) = 2
        /\ Len(FirstCompletion(r).function_calls) = 2
        /\ FirstCompletion(r).function_calls[1].name = "get_user_trade_summary"
        /\ FirstCompletion(r).function_calls[2].name = "other_tool"
        /\ Len(toolLog[r]) = 1
        /\ result[r].content = "a1"

\* the tool of slot r was invoked and raised: it left no output
ToolFailed(r) == ChatSlot(r) /\ toolLog[r] # <<>> /\ tool_output[r] = <<>>

\* C16: when the tool, requested by the first completion, raises, the request
\* has ended in an HTTP error (500) and not in an assistant message, with no
\* default text, and the second query was not issued: the first query is the
\* only gateway call.
C16_ToolFailureAborts ==
    \A r \in Slots :
        ToolFailed(r) =>
            /\ pc[r] = "done"
            /\ Len(gatewayLog[r]) = 1
            /\ tool_response[r] = Unbound
            /\ result[r].kind = "HTTPException"
            /\ result[r].status_code = 500
            /\ result[r].content = None
            /\ response_text[r] = None

C16_Witness ==
    \E r \in Slots :
        /\ ToolFailed(r)
        /\ pc[r] = "done"
        /\ FirstCompletion(r).function_calls[1].name = "get_user_trade_summary"
        /\ FirstCompletion(r).text = "a1"
        /\ result[r].status_code = 500

\* the completion whose text slot r took as the final answer
AnswerTaken(r) ==
    /\ ChatSlot(r)
    /\ pc[r] = "done"
    /\ NoCallRaised(r)
    /\ \/ Len(gatewayLog[r]) = 1 /\ FirstCompletion(r).function_calls = <<>>
       \/ Len(gatewayLog[r]) = 2

AnswerCompletion(r) == gatewayLog[r][Len(gatewayLog[r])].completion

C18_NoEmptyAnswer ==
    \A r \in Slots : result[r].kind = "ChatMessage" => result[r].content # ""

\* the outcome that the request of slot r and the completions returned to it
\* determine
OwnOutcome(r) ==
    LET n == Len(gatewayLog[r])
        last == gatewayLog[r][n]
    IN IF n = 0 THEN HTTPException(500, "AI Service is not initialized.")
       ELSE IF last.raises = "APIError" THEN HTTPException(502, "Gemini API Error")
       ELSE IF last.raises # None THEN HTTPException(500, "An unexpected error occurred")
       ELSE IF n = 1 /\ last.completion.function_calls # <<>>
            THEN ChatMessageReply("assistant", "ERROR: Unknown tool requested.")
       ELSE IF last.completion.text = None
            THEN HTTPException(500, "An unexpected error occurred")
       ELSE ChatMessageReply("assistant", last.completion.text)

\* what slot r sends and gets depends on its own request and completions only
OwnInputsOnly(r) ==
    /\ Queried(r) =>
         LET h == request[r].history
             c == gatewayLog[r][1].contents
         IN /\ Len(c) = Len(h)
            /\ \A i \in 1..Len(h) :
                 /\ TextOf(c[i]) = h[i].content
                 /\ c[i].role = (IF h[i].role \in {"user", "tool"} THEN "user" ELSE "model")
    /\ \A i \in 1..Len(toolLog[r]) : toolLog[r][i] = request[r].user_id
    /\ Len(gatewayLog[r]) = 2 =>
         LET c1 == gatewayLog[r][1].contents
             c2 == gatewayLog[r][2].contents
         IN /\ Len(c2) = Len(c1) + 1
            /\ \A i \in 1..Len(c1) : c2[i] = c1[i]
            /\ c2[Len(c2)].parts[1].response =
                 <<"summary", <<"Anonymized Trade Summary for ID", request[r].user_id>>>>
    /\ (pc[r] = "done" /\ ChatSlot(r)) => result[r] = OwnOutcome(r)

\* the data of slot s: its request, the locals of its invocation, its result
\* and the calls it made
SlotState(s) ==
    <<route[s], auth_key[s], request[s], gemini_contents[s], gemini_response[s],
      tool_output[s], tool_response[s], response_text[s], result[s], gatewayLog[s],
      toolLog[s]>>

\* C15: with two chat requests interleaved at every step (including between
\* the first query and the tool call, and between the tool call and the second
\* query), what each request sends to the gateway, the user_id it passes to
\* the tool and its outcome are functions of its own request and of the
\* completions returned to it; a step of one request changes nothing of the
\* other request's data, and the shared client handle is never written.
C15_RequestsIndependent ==
    /\ [](\A r \in ConcSlots : OwnInputsOnly(r))
    /\ [][ /\ LLM_CLIENT' = LLM_CLIENT
           /\ \A s \in ConcSlots : pc'[s] = pc[s] => SlotState(s)' = SlotState(s) ]_vars

C15_Witness ==
    /\ pc[1] = "second_query"
    /\ pc[2] = "done"
    /\ Len(gatewayLog[2]) = 2
    /\ request[1].user_id = "u1"
    /\ request[2].user_id = "u2"
    /\ request[1].history # request[2].history
    /\ toolLog[1] = <<"u1">>
    /\ toolLog[2] = <<"u2">>
    /\ result[2].content = "a2"

\* slot r holds a chat request that passed the header check
Accepted(r) == ChatSlot(r) /\ pc[r] \in {"handler", "first_query", "tool", "second_query"}

\* the outcome of slot r is one assistant message or one error
TerminalOutcome(r) ==
    \/ /\ result[r].kind = "ChatMessage"
       /\ result[r].role = "assistant"
       /\ result[r].content # None
       /\ result[r].detail = None
    \/ /\ result[r].kind = "HTTPException"
       /\ result[r].status_code \in {500, 502}
       /\ result[r].content = None

\* C17: provided every gateway call and the tool call returns or raises, every
\* accepted chat request eventually ends; while it runs it has no outcome, when
\* it has ended it has exactly one, an assistant message or an error, and that
\* outcome is not replaced afterwards.
C17_AcceptedRequestEnds ==
    /\ \A r \in ConcSlots : Accepted(r) ~> (pc[r] = "done")
    /\ [](\A r \in ConcSlots :
            /\ Accepted(r) => result[r] = NoResult
            /\ (ChatSlot(r) /\ pc[r] = "done") => TerminalOutcome(r))
    /\ [][\A r \in ConcSlots :
            (pc[r] = "done" /\ pc'[r] = "done") => result'[r] = result[r]]_vars

C17_Witness ==
    \E r \in ConcSlots :
        /\ ChatSlot(r)
        /\ pc[r] = "done"
        /\ Len(gatewayLog[r]) = 2
        /\ TerminalOutcome(r)
        /\ result[r].kind = "ChatMessage"
        /\ \E s \in ConcSlots : s # r /\ Accepted(s)

====
